---------------------------- MODULE Spec2Model ----------------------------
(***************************************************************************)
(* Hotel resource service (src/main.py): five HTTP handlers over one       *)
(* SQLite table "hotels".  The table is a rowid table: the column id is    *)
(* INTEGER PRIMARY KEY without AUTOINCREMENT, the rows are kept in         *)
(* ascending id order and a full scan returns them in that order.          *)
(***************************************************************************)
EXTENDS Integers, Sequences, FiniteSets, TLC

VARIABLES hotels,     \* the rows of table "hotels", in ascending id order
          req,        \* the request handled last
          resp,       \* the response to it
          maxIssued   \* history: the greatest id a create has returned so far

vars == <<hotels, req, resp, maxIssued>>

---------------------------------------------------------------------------
(* Bounds of the model *)
MaxId == 2

(* Program constants *)
MinRating == 1
MaxRating == 5
DefaultSize == 100
MaxSize == 1000

(* Input values *)
Cities == {"Paris", "Rome"}
Descriptions == {"Nice"}
Names == {"Hotel A", "Hotel B"}
RatingInputs == {0, 1, 5, 6}
IdInputs == 1..MaxId
PageInputs == {-1, 0, 1, 2, 5}
SizeInputs == {-1, 0, 1, 2, 3, 100, 1000, 1001}
SortInputs == {"none", "name"}

(* A JSON body field: left out, explicit null, or a value *)
Unset == [kind |-> "unset"]
Null == [kind |-> "null"]
Val(v) == [kind |-> "value", val |-> v]
FieldOpts(S) == {Unset, Null} \cup {Val(v) : v \in S}

Bodies ==
    [city : FieldOpts(Cities), description : FieldOpts(Descriptions),
     name : FieldOpts(Names), rating : FieldOpts(RatingInputs)]

IsSet(f) == f.kind # "unset"
IsValue(f) == f.kind = "value"

---------------------------------------------------------------------------
(* Pydantic models *)

\* Field(..., ge=1, le=5)
RatingInRange(r) == MinRating <= r /\ r <= MaxRating

\* HotelCreate: the four fields are required and not nullable
ValidCreate(p) ==
    /\ IsValue(p.city) /\ IsValue(p.description) /\ IsValue(p.name)
    /\ IsValue(p.rating) /\ RatingInRange(p.rating.val)

\* mutant: the rating of an update is not range checked
ValidUpdateNoRange(b) == TRUE

\* HotelUpdate: every field Optional; a rating that is given is range checked
ValidUpdate(b) == IsValue(b.rating) => RatingInRange(b.rating.val)

\* Hotel.model_validate(row): the response model repeats the rating constraint
ValidHotel(row) == RatingInRange(row.rating)

---------------------------------------------------------------------------
(* The table *)

\* mutant: the query lacks its filter and takes the first row
FindRowFirst(t, id) == IF Len(t) = 0 THEN 0 ELSE 1

\* position of the row with primary key id, 0 when there is none
FindRow(t, id) ==
    IF \E i \in 1..Len(t) : t[i].id = id
    THEN CHOOSE i \in 1..Len(t) : t[i].id = id
    ELSE 0

\* rowid of an INSERT that gives no id: one more than the largest rowid
NextRowId(t) == IF Len(t) = 0 THEN 1 ELSE t[Len(t)].id + 1

InsertRow(t, p) ==
    Append(t, [id |-> NextRowId(t), city |-> p.city.val,
               description |-> p.description.val, name |-> p.name.val,
               rating |-> p.rating.val])

\* mutant: the delete is not committed
RemoveRowUncommitted(t, i) == t

RemoveRow(t, i) == SubSeq(t, 1, i - 1) \o SubSeq(t, i + 1, Len(t))

\* columns are nullable=False: a commit of a row holding NULL fails
HasNull(b) ==
    \/ b.city.kind = "null" \/ b.description.kind = "null"
    \/ b.name.kind = "null" \/ b.rating.kind = "null"

\* mutant: a field the body leaves out is written with a default
MergeDefaults(row, b) ==
    [id |-> row.id,
     city |-> IF IsSet(b.city) THEN b.city.val ELSE row.city,
     description |-> IF IsSet(b.description) THEN b.description.val ELSE row.description,
     name |-> IF IsSet(b.name) THEN b.name.val ELSE row.name,
     rating |-> IF IsSet(b.rating) THEN b.rating.val ELSE MinRating]

\* setattr(db_hotel, field, value) for each field that was set
Merge(row, b) ==
    [id |-> row.id,
     city |-> IF IsSet(b.city) THEN b.city.val ELSE row.city,
     description |-> IF IsSet(b.description) THEN b.description.val ELSE row.description,
     name |-> IF IsSet(b.name) THEN b.name.val ELSE row.name,
     rating |-> IF IsSet(b.rating) THEN b.rating.val ELSE row.rating]

\* mutant: the slice starts one row late
SliceLate(t, offset, limit) ==
    LET from == IF offset < 0 THEN 1 ELSE offset + 1
        upto == IF limit < 0 \/ from + limit > Len(t) THEN Len(t) ELSE from + limit
    IN  IF from >= upto THEN <<>> ELSE SubSeq(t, from + 1, upto)

\* query.offset(offset).limit(size).all(); SQLite reads a negative OFFSET as 0
\* and a negative LIMIT as no limit
Slice(t, offset, limit) ==
    LET from == IF offset < 0 THEN 0 ELSE offset
        upto == IF limit < 0 \/ from + limit > Len(t) THEN Len(t) ELSE from + limit
    IN  IF from >= upto THEN <<>> ELSE SubSeq(t, from + 1, upto)

---------------------------------------------------------------------------
(* Handlers: each gives the table and the response after the request *)

Outcome(t, r) == [hotels |-> t, resp |-> r]
NotFound(id) == [status |-> 404, detail |-> id]

ClampPage(page) == IF page < 0 THEN 0 ELSE page
\* mutant: a size <= 0 is let through
ClampSizeUpperOnly(size) == IF size > MaxSize THEN MaxSize ELSE size

ClampSize(size) ==
    IF size <= 0 THEN DefaultSize
    ELSE IF size > MaxSize THEN MaxSize ELSE size

\* mutant: the page number is taken as 1-based
PageOffsetOneBased(page, size) == (page - 1) * size

PageOffset(page, size) == page * size
\* mutant: the page count is rounded down
TotalPagesFloor(total, size) == IF size > 0 THEN total \div size ELSE 0

TotalPages(total, size) == IF size > 0 THEN (total + size - 1) \div size ELSE 0
IsLast(offset, n, total) == offset + n >= total

get_all_hotels(t, page0, size0, sort) ==
    LET page == ClampPage(page0)
        size == ClampSize(size0)
        offset == PageOffset(page, size)
        total == Len(t)
        hotels_list == Slice(t, offset, size)
    IN  IF \E i \in 1..Len(hotels_list) : ~ValidHotel(hotels_list[i])
        THEN Outcome(t, [status |-> 500])
        ELSE Outcome(t,
                [status |-> 200,
                 body |-> [content |-> hotels_list,
                           last |-> IsLast(offset, Len(hotels_list), total),
                           totalElements |-> total,
                           totalPages |-> TotalPages(total, size),
                           size |-> size,
                           number |-> page,
                           sort |-> sort,
                           numberOfElements |-> Len(hotels_list),
                           first |-> (page = 0)]])

HotelResponse(t, code, row) ==
    IF ValidHotel(row) THEN Outcome(t, [status |-> code, body |-> row])
    ELSE Outcome(t, [status |-> 500])

create_hotel(t, p) ==
    IF ~ValidCreate(p) THEN Outcome(t, [status |-> 422])
    ELSE LET t2 == InsertRow(t, p)
         IN  HotelResponse(t2, 201, t2[Len(t2)])

get_hotel_by_id(t, id) ==
    LET i == FindRow(t, id)
    IN  IF i = 0 THEN Outcome(t, NotFound(id))
        ELSE HotelResponse(t, 200, t[i])

\* mutant: an update of an id that is not stored inserts the record
update_hotel_upsert(t, id, b) ==
    LET i == FindRow(t, id)
    IN  IF ~ValidUpdate(b) THEN Outcome(t, [status |-> 422])
        ELSE IF i = 0 THEN
            IF ValidCreate(b) THEN HotelResponse(InsertRow(t, b), 200, InsertRow(t, b)[Len(t) + 1])
            ELSE Outcome(t, NotFound(id))
        ELSE IF HasNull(b) THEN Outcome(t, [status |-> 500])
        ELSE LET t2 == [t EXCEPT ![i] = Merge(t[i], b)]
             IN  HotelResponse(t2, 200, t2[i])

update_hotel(t, id, b) ==
    LET i == FindRow(t, id)
    IN  IF ~ValidUpdate(b) THEN Outcome(t, [status |-> 422])
        ELSE IF i = 0 THEN Outcome(t, NotFound(id))
        ELSE IF HasNull(b) THEN Outcome(t, [status |-> 500])
        ELSE LET t2 == [t EXCEPT ![i] = Merge(t[i], b)]
             IN  HotelResponse(t2, 200, t2[i])

delete_hotel(t, id) ==
    LET i == FindRow(t, id)
    IN  IF i = 0 THEN Outcome(t, NotFound(id))
        ELSE Outcome(RemoveRow(t, i), [status |-> 204])

---------------------------------------------------------------------------
(* The service *)

Init ==
    /\ hotels = <<>>
    /\ req = [op |-> "none"]
    /\ resp = [status |-> 0]
    /\ maxIssued = 0

Idle == req.op = "none"

Apply(r, out) ==
    /\ req' = r
    /\ hotels' = out.hotels
    /\ resp' = out.resp

List ==
    /\ Idle
    /\ \E page \in PageInputs, size \in SizeInputs, sort \in SortInputs :
        /\ Apply([op |-> "list", page |-> page, size |-> size, sort |-> sort],
                 get_all_hotels(hotels, page, size, sort))
        /\ UNCHANGED maxIssued

Create ==
    /\ Idle
    /\ \E p \in Bodies :
        /\ ValidCreate(p) => NextRowId(hotels) <= MaxId
        /\ LET out == create_hotel(hotels, p)
           IN  /\ Apply([op |-> "create", body |-> p], out)
               /\ maxIssued' = IF out.resp.status = 201 /\ out.resp.body.id > maxIssued
                               THEN out.resp.body.id ELSE maxIssued

Get ==
    /\ Idle
    /\ \E id \in IdInputs :
        /\ Apply([op |-> "get", id |-> id], get_hotel_by_id(hotels, id))
        /\ UNCHANGED maxIssued

Update ==
    /\ Idle
    /\ \E id \in IdInputs, b \in Bodies :
        /\ Apply([op |-> "update", id |-> id, body |-> b], update_hotel(hotels, id, b))
        /\ UNCHANGED maxIssued

Delete ==
    /\ Idle
    /\ \E id \in IdInputs :
        /\ Apply([op |-> "delete", id |-> id], delete_hotel(hotels, id))
        /\ UNCHANGED maxIssued

\* get_db: the response is sent and the session closed; the next request
\* gets a session of its own
Close ==
    /\ ~Idle
    /\ req' = [op |-> "none"]
    /\ resp' = [status |-> 0]
    /\ UNCHANGED <<hotels, maxIssued>>

Next == List \/ Create \/ Get \/ Update \/ Delete \/ Close

Spec == Init /\ [][Next]_vars

---------------------------------------------------------------------------
(* The list operation over tables of many rows *)

TableSizes == {0, 1, 3, 250, 1001}
IdSteps == {1, 2}

RowOf(id) ==
    [id |-> id,
     city |-> IF id % 2 = 0 THEN "Paris" ELSE "Rome",
     description |-> "Nice",
     name |-> IF id % 3 = 0 THEN "Hotel A" ELSE "Hotel B",
     rating |-> MinRating + (id % MaxRating)]

\* the table after creates (and, for step 2, deletes of every other row)
TableOf(n, step) == [i \in 1..n |-> RowOf(i * step)]

InitList ==
    /\ \E n \in TableSizes, step \in IdSteps :
        /\ hotels = TableOf(n, step)
        /\ maxIssued = n * step
    /\ req = [op |-> "none"]
    /\ resp = [status |-> 0]

NextList == List \/ Close

SpecList == InitList /\ [][NextList]_vars

---------------------------------------------------------------------------
(* Claims *)

Listed == req.op = "list" /\ resp.status = 200
Page == resp.body
Total == Len(hotels)

\* C1: every successful create returns an id strictly greater than every id
\* returned by an earlier create, also after deletes.
C1_CreateIdsIncrease ==
    [][(req'.op = "create" /\ resp'.status = 201) => resp'.body.id > maxIssued]_vars

\* C2: a successful update overwrites exactly the fields the body supplies and
\* leaves the other fields, the id and every other record unchanged; an empty
\* body changes nothing.
C2_UpdateOverwritesSuppliedOnly ==
    [][(req'.op = "update" /\ resp'.status = 200) =>
        LET b == req'.body
            i == FindRow(hotels, req'.id)
        IN  /\ i # 0
            /\ b.city.kind # "null" /\ b.description.kind # "null"
            /\ b.name.kind # "null" /\ b.rating.kind # "null"
            /\ Len(hotels') = Len(hotels)
            /\ \A j \in 1..Len(hotels) : j # i => hotels'[j] = hotels[j]
            /\ hotels'[i].id = hotels[i].id
            /\ hotels'[i].city =
                 IF b.city.kind = "unset" THEN hotels[i].city ELSE b.city.val
            /\ hotels'[i].description =
                 IF b.description.kind = "unset" THEN hotels[i].description
                 ELSE b.description.val
            /\ hotels'[i].name =
                 IF b.name.kind = "unset" THEN hotels[i].name ELSE b.name.val
            /\ hotels'[i].rating =
                 IF b.rating.kind = "unset" THEN hotels[i].rating ELSE b.rating.val
            /\ (b = [city |-> Unset, description |-> Unset, name |-> Unset,
                     rating |-> Unset] => hotels' = hotels)]_vars

C2_Witness ==
    /\ req.op = "update" /\ resp.status = 200
    /\ Len(hotels) = 2
    /\ req.body.city.kind = "value" /\ req.body.rating.kind = "unset"
    /\ req.body.name.kind = "unset" /\ req.body.description.kind = "unset"
    /\ resp.body.city = req.body.city.val
    /\ resp.body.name = "Hotel B" /\ resp.body.rating = 5

\* C3: after every request each stored rating is an integer in 1..5; a create
\* with a rating outside 1..5 (0, 6) is rejected and adds no record, and an
\* update with such a rating or an explicit null rating stores nothing.
C3_RatingsInRange ==
    [][/\ \A i \in 1..Len(hotels') : hotels'[i].rating \in 1..5
       /\ (req'.op = "create" /\ req'.body.rating.kind = "value"
           /\ req'.body.rating.val \notin 1..5)
          => (resp'.status = 422 /\ hotels' = hotels)
       /\ (req'.op = "update" /\ req'.body.rating.kind = "value"
           /\ req'.body.rating.val \notin 1..5)
          => (resp'.status = 422 /\ hotels' = hotels)
       /\ (req'.op \in {"create", "update"} /\ req'.body.rating.kind = "null")
          => (resp'.status \notin {200, 201} /\ hotels' = hotels)]_vars

C3_Witness ==
    /\ req.op = "create" /\ resp.status = 422
    /\ req.body.rating = Val(6)
    /\ IsValue(req.body.city) /\ IsValue(req.body.description) /\ IsValue(req.body.name)
    /\ Len(hotels) = 1 /\ hotels[1].rating = 5

\* C4: after a successful delete of id, a get of id is answered 404 and a
\* second delete of id is answered 404 and changes nothing; an absent id
\* stays absent until a create returns it.
C4_DeletedStaysAbsent ==
    [][/\ (req'.op = "delete" /\ resp'.status = 204) =>
            /\ \A i \in 1..Len(hotels') : hotels'[i].id # req'.id
            /\ get_hotel_by_id(hotels', req'.id) = Outcome(hotels', NotFound(req'.id))
            /\ delete_hotel(hotels', req'.id) = Outcome(hotels', NotFound(req'.id))
       /\ \A id \in IdInputs :
            ((\A i \in 1..Len(hotels) : hotels[i].id # id)
             /\ ~(req'.op = "create" /\ resp'.status = 201 /\ resp'.body.id = id))
            => (\A i \in 1..Len(hotels') : hotels'[i].id # id)
       /\ (req'.op \in {"get", "delete"}
           /\ \A i \in 1..Len(hotels) : hotels[i].id # req'.id)
          => (resp' = [status |-> 404, detail |-> req'.id] /\ hotels' = hotels)]_vars

C4_Witness ==
    /\ req.op = "delete" /\ resp.status = 404
    /\ req.id <= maxIssued
    /\ Len(hotels) = 1

\* C5: a get of the id a create returned, issued right after that create,
\* returns the record the create returned, which carries the payload's four
\* fields.
C5_GetAfterCreate ==
    (req.op = "create" /\ resp.status = 201) =>
        /\ get_hotel_by_id(hotels, resp.body.id).resp = [status |-> 200, body |-> resp.body]
        /\ resp.body.city = req.body.city.val
        /\ resp.body.description = req.body.description.val
        /\ resp.body.name = req.body.name.val
        /\ resp.body.rating = req.body.rating.val

C5_Witness ==
    /\ req.op = "create" /\ resp.status = 201
    /\ Len(hotels) = 2 /\ resp.body.id = 2
    /\ hotels[1].city # resp.body.city

\* C6: the content of a list response is the records at the indices
\* [number*size, number*size+size) that lie in [0, total) of the table's
\* record sequence; totalElements is total; numberOfElements is the length of
\* content, 0 when number*size >= total.
C6_ContentIsIndexRange ==
    Listed =>
        LET lo == Page.number * Page.size
            hi == IF lo + Page.size < Total THEN lo + Page.size ELSE Total
            n == IF hi > lo THEN hi - lo ELSE 0
        IN  /\ Len(Page.content) = n
            /\ \A k \in 1..n : Page.content[k] = hotels[lo + k]
            /\ Page.totalElements = Total
            /\ Page.numberOfElements = Len(Page.content)
            /\ (lo >= Total => Page.numberOfElements = 0)

C6_Witness ==
    /\ Listed /\ Total = 250
    /\ req.page = 2 /\ req.size = 100
    /\ Page.numberOfElements = 50
    /\ Page.content[1] = hotels[201] /\ Page.content[50] = hotels[250]

\* C7: totalPages is ceil(total/size), first is (number = 0), last is
\* (number*size + numberOfElements >= total), which is the same as
\* number*size + size >= total; with 250 records and size 100, page 0 has
\* 100 records, first, not last, totalPages 3; page 2 has 50 records and
\* last; page 5 has no records and last.
C7_PageFlags ==
    Listed =>
        /\ Page.totalPages * Page.size >= Total
        /\ (Page.totalPages - 1) * Page.size < Total
        /\ Page.first = (Page.number = 0)
        /\ Page.last = (Page.number * Page.size + Page.numberOfElements >= Total)
        /\ Page.last = (Page.number * Page.size + Page.size >= Total)
        /\ (Total = 250 /\ Page.size = 100) =>
              /\ Page.totalPages = 3
              /\ Page.number = 0 =>
                    (Page.numberOfElements = 100 /\ Page.first /\ ~Page.last)
              /\ Page.number = 2 => (Page.numberOfElements = 50 /\ Page.last)
              /\ Page.number = 5 => (Page.numberOfElements = 0 /\ Page.last)

C7_Witness ==
    /\ Listed /\ Total = 250
    /\ req.page = 5 /\ req.size = 100
    /\ Page.numberOfElements = 0 /\ Page.last /\ ~Page.first
    /\ Page.totalPages = 3

\* C8: page < 0 is taken as 0, size <= 0 as 100, size > 1000 as 1000, before
\* any arithmetic: every list request is answered with number >= 0 and
\* 1 <= size <= 1000, and the slice and totalPages come from the clamped
\* values.
C8_ClampedInputs ==
    req.op = "list" =>
        LET page == IF req.page < 0 THEN 0 ELSE req.page
            size == IF req.size <= 0 THEN 100
                    ELSE IF req.size > 1000 THEN 1000 ELSE req.size
            lo == page * size
        IN  /\ resp.status = 200
            /\ Page.number = page /\ Page.size = size
            /\ Page.number >= 0 /\ 1 <= Page.size /\ Page.size <= 1000
            /\ Page.numberOfElements =
                 IF lo >= Total THEN 0
                 ELSE IF lo + size > Total THEN Total - lo ELSE size
            /\ \A k \in 1..Page.numberOfElements : Page.content[k] = hotels[lo + k]
            /\ Page.totalPages * size >= Total
            /\ (Page.totalPages - 1) * size < Total

C8_Witness ==
    /\ Listed /\ Total = 1001
    /\ req.page = -1 /\ req.size = 1001
    /\ Page.number = 0 /\ Page.size = 1000
    /\ Page.numberOfElements = 1000 /\ ~Page.last /\ Page.totalPages = 2

\* C9 as stated: an update of an id that is not stored is answered 404 and
\* changes nothing, whatever the body supplies.
C9_AbsentUpdateIs404 ==
    [][(req'.op = "update" /\ \A i \in 1..Len(hotels) : hotels[i].id # req'.id)
        => (resp'.status = 404 /\ hotels' = hotels)]_vars

\* C9 amended: an update of an id that is not stored changes nothing,
\* whatever the body supplies; it is answered 404 naming the id, unless the
\* body gives a rating outside 1..5, which is answered 422.
C9_AbsentUpdateChangesNothing ==
    [][(req'.op = "update" /\ \A i \in 1..Len(hotels) : hotels[i].id # req'.id)
        => /\ hotels' = hotels
           /\ resp' = IF req'.body.rating.kind = "value"
                         /\ req'.body.rating.val \notin 1..5
                      THEN [status |-> 422]
                      ELSE [status |-> 404, detail |-> req'.id]]_vars

C9_Witness ==
    /\ req.op = "update" /\ resp = [status |-> 404, detail |-> 2]
    /\ req.id = 2
    /\ Len(hotels) = 1 /\ hotels[1].id = 1
    /\ IsValue(req.body.city) /\ req.body.city.val # hotels[1].city
    /\ req.body.rating = Val(5) /\ hotels[1].rating = 1

RECURSIVE PagesFrom(_, _, _, _)
\* the contents of pages p .. last-1 for a fixed size, one after the other
PagesFrom(t, p, last, size) ==
    IF p >= last THEN <<>>
    ELSE get_all_hotels(t, p, size, "none").resp.body.content
            \o PagesFrom(t, p + 1, last, size)

=============================================================================
